---- MODULE Spec2Model ----
(***************************************************************************)
(* A model of the Digraph class template of MapGraphs/Digraph.hpp: an      *)
(* adjacency-list directed graph (a std::map from vertex number to a       *)
(* DigraphVertex holding a std::list of outgoing DigraphEdges), its        *)
(* mutators and queries, isStronglyConnected and findShortestPaths.        *)
(*                                                                         *)
(* Undefined behaviour in the source is modelled as a nondeterministic     *)
(* choice over its outcomes:                                               *)
(*   - `int total;` in edgeCount() and `int minVert;` in findMinimum() are *)
(*     read uninitialised: the value read is any member of UninitInts;     *)
(*   - removeVertex() and removeEdge() increment a std::list iterator      *)
(*     after erasing the node it refers to: either the freed node's link   *)
(*     is still intact and the loop goes on as written, or the process     *)
(*     dies (crashed).                                                     *)
(***************************************************************************)
EXTENDS Integers, Sequences, FiniteSets, TLC

\* Vertex numbers the callers use.
Ids == {1, 2, 3}
\* VertexInfo values.
VInfos == {"a", "b"}
\* EdgeInfo values; the edge weight function handed to findShortestPaths is
\* edgeWeightFunc below.
EdgeInfos == {"free", "toll", "far"}
\* The graph is kept to at most MaxEdges edges (a cap on addEdge).
MaxEdges == 2
\* What a read of an uninitialised int may yield.
UninitInts == {-1, 0} \cup Ids

VARIABLES
    info,          \* std::map<int, DigraphVertex>: vertex number -> [vinfo, edges]
    op,            \* the last public member function called, with its arguments
    err,           \* reason() of the exception the last call threw, or "none"
    ret,           \* the value the last call returned
    crashed,       \* the process died inside the last call
    pc,            \* "idle", or "findShortestPaths" while that call is running
    unvisited,     \* findShortestPaths: std::vector<int> unvisited
    shortestDist,  \* findShortestPaths: std::map<int, double> shortestDist
    shortestPath   \* findShortestPaths: std::map<int, int> shortestPath

vars == <<info, op, err, ret, crashed, pc, unvisited, shortestDist, shortestPath>>

-----------------------------------------------------------------------------
\* Containers

\* The keys of a std::map, in iteration (ascending) order.
RECURSIVE SortedSeq(_)
SortedSeq(S) ==
    IF S = {} THEN << >>
    ELSE LET m == CHOOSE x \in S : \A y \in S : x <= y
         IN  <<m>> \o SortedSeq(S \ {m})

\* std::map::erase(key)
MapErase(m, k) == [x \in DOMAIN m \ {k} |-> m[x]]

\* std::map::operator[]= / insert of a key
MapPut(m, k, v) == [x \in DOMAIN m \cup {k} |-> IF x = k THEN v ELSE m[x]]

\* std::list / std::vector erase of the element at position i
EraseAt(s, i) == [j \in 1..(Len(s) - 1) |-> IF j < i THEN s[j] ELSE s[j + 1]]

RECURSIVE SumSeq(_)
SumSeq(s) == IF s = << >> THEN 0 ELSE Head(s) + SumSeq(Tail(s))

RECURSIVE ConcatAll(_)
ConcatAll(ss) == IF ss = << >> THEN << >> ELSE Head(ss) \o ConcatAll(Tail(ss))

SeqRange(s) == {s[i] : i \in 1..Len(s)}

DigraphEdge(from, to, einfo) == [fromVertex |-> from, toVertex |-> to, einfo |-> einfo]

DigraphVertex(vinfo) == [vinfo |-> vinfo, edges |-> << >>]

-----------------------------------------------------------------------------
\* Queries

\* vertices(): the vertex numbers, in map order
vertices(g) == SortedSeq(DOMAIN g)

\* edges(int vertex): the (from, to) pairs of the edges leaving vertex
edgesFrom(g, vertex) ==
    [i \in 1..Len(g[vertex].edges) |-> <<vertex, g[vertex].edges[i].toVertex>>]

\* edges(): the (fromVertex, toVertex) pairs of every stored edge
edgesAll(g) ==
    LET vs == vertices(g)
    IN  ConcatAll([k \in 1..Len(vs) |->
            [i \in 1..Len(g[vs[k]].edges) |->
                <<g[vs[k]].edges[i].fromVertex, g[vs[k]].edges[i].toVertex>>]])

\* vertexCount()
vertexCount(g) == Cardinality(DOMAIN g)

\* edgeCount(int vertex)
edgeCountOf(g, vertex) == Len(g[vertex].edges)

\* edgeCount(): `int total;` is never initialised, so the sum starts from
\* whatever the variable holds.  The set of values the call may return.
edgeCountResults(g) ==
    LET vs == vertices(g)
        sum == SumSeq([k \in 1..Len(vs) |-> Len(g[vs[k]].edges)])
    IN  {total + sum : total \in UninitInts}

\* The check the edge operations share: both endpoints are keys of the map.
EndpointsPresent(g, from, to) == from \in DOMAIN g /\ to \in DOMAIN g

\* std::find(temp.begin(), temp.end(), check) != temp.end() over edges(from)
EdgeFound(g, from, to) == <<from, to>> \in SeqRange(edgesFrom(g, from))

\* edgeInfo as it would be, did it name the missing vertex in its exception.
edgeInfoNamesVertex(g, from, to) ==
    IF ~EndpointsPresent(g, from, to)
    THEN [err |-> "Invalid vertex", ret |-> "none"]
    ELSE IF ~EdgeFound(g, from, to)
    THEN [err |-> "Invalid edge", ret |-> "none"]
    ELSE [err |-> "none", ret |-> g[from].edges[1].einfo]

\* edgeInfo(from, to): [err, ret]
edgeInfoResult(g, from, to) ==
    IF ~EndpointsPresent(g, from, to)
    THEN [err |-> "Invalid edge", ret |-> "none"]
    ELSE IF ~EdgeFound(g, from, to)
    THEN [err |-> "Invalid edge", ret |-> "none"]
    ELSE LET es == g[from].edges
             i  == CHOOSE j \in 1..Len(es) :
                       /\ es[j].toVertex = to
                       /\ \A k \in 1..(j - 1) : es[k].toVertex # to
         IN  [err |-> "none", ret |-> es[i].einfo]

-----------------------------------------------------------------------------
\* Mutators.  Each yields the outcome(s) of one call on graph g:
\* [info, err, crashed].

Outcome(g, e, c) == [info |-> g, err |-> e, crashed |-> c]

\* addVertex as it would be, did it store the vertex before throwing.
addVertexOverwrites(g, vertex, vinfo) ==
    IF vertex \in DOMAIN g
    THEN Outcome(MapPut(g, vertex, DigraphVertex(vinfo)), "Vertex already exists", FALSE)
    ELSE Outcome(MapPut(g, vertex, DigraphVertex(vinfo)), "none", FALSE)

\* addVertex(vertex, vinfo)
addVertexResult(g, vertex, vinfo) ==
    IF vertex \in DOMAIN g
    THEN Outcome(g, "Vertex already exists", FALSE)
    ELSE Outcome(MapPut(g, vertex, DigraphVertex(vinfo)), "none", FALSE)

\* addEdge(fromVertex, toVertex, einfo)
addEdgeResult(g, from, to, einfo) ==
    IF ~EndpointsPresent(g, from, to)
    THEN Outcome(g, "Invalid edge", FALSE)
    ELSE IF EdgeFound(g, from, to)
    THEN Outcome(g, "Invalid edge", FALSE)
    ELSE Outcome([g EXCEPT ![from].edges = Append(@, DigraphEdge(from, to, einfo))],
                 "none", FALSE)

\* The inner loop of removeVertex / the loop of removeEdge on one edge list,
\* when every increment of an erased iterator still finds the old link:
\* every edge pointing to `to` is erased.
EraseEdgesTo(es, to) == SelectSeq(es, LAMBDA e : e.toVertex # to)

\* The vertices, in map order, whose edge list holds an edge to `vertex`.
SourcesOfEdgesTo(g, vertex) ==
    SelectSeq(vertices(g),
              LAMBDA v : \E i \in 1..Len(g[v].edges) : g[v].edges[i].toVertex = vertex)

\* g with the edge lists of the first n vertices of srcs cleaned of `vertex`
StripFirst(g, srcs, n, vertex) ==
    [v \in DOMAIN g |->
        IF \E k \in 1..n : srcs[k] = v
        THEN [g[v] EXCEPT !.edges = EraseEdgesTo(@, vertex)]
        ELSE g[v]]

\* removeVertex as it would be without its loop over the other edge lists.
removeVertexKeepsIncoming(g, vertex) ==
    IF vertex \notin DOMAIN g
    THEN {Outcome(g, "Invalid vertex", FALSE)}
    ELSE {Outcome(MapErase(g, vertex), "none", FALSE)}

\* removeVertex(vertex).  The vertex (with its outgoing edges) is erased from
\* the map first; then every other edge list is walked and each edge to
\* `vertex` erased, the iterator being incremented after the erase.  Each
\* such increment either goes on or kills the process.
removeVertexOutcomes(g, vertex) ==
    IF vertex \notin DOMAIN g
    THEN {Outcome(g, "Invalid vertex", FALSE)}
    ELSE LET g1   == MapErase(g, vertex)
             srcs == SourcesOfEdgesTo(g1, vertex)
         IN  {Outcome(StripFirst(g1, srcs, Len(srcs), vertex), "none", FALSE)}
             \cup {Outcome(StripFirst(g1, srcs, n, vertex), "none", TRUE) :
                      n \in 1..Len(srcs)}

\* removeEdge(from, to).  After the checks the matching edge is erased and
\* the iterator incremented after the erase.
removeEdgeOutcomes(g, from, to) ==
    IF ~EndpointsPresent(g, from, to)
    THEN {Outcome(g, "Invalid edge", FALSE)}
    ELSE IF ~EdgeFound(g, from, to)
    THEN {Outcome(g, "Invalid edge", FALSE)}
    ELSE LET g1 == [g EXCEPT ![from].edges = EraseEdgesTo(@, to)]
         IN  {Outcome(g1, "none", FALSE), Outcome(g1, "none", TRUE)}

-----------------------------------------------------------------------------
\* isStronglyConnected

\* checkConnectivity(from, visited): visited is passed by value; the value of
\* the recursive call is discarded.
RECURSIVE checkConnectivity(_, _, _)
RECURSIVE CheckLoop(_, _, _, _)
CheckLoop(g, from, visited, i) ==
    IF i > Len(g[from].edges) THEN FALSE
    ELSE LET to == g[from].edges[i].toVertex
         IN  IF to \notin SeqRange(visited)
             THEN CheckLoop(g, from, Append(visited, to), i + 1)
             ELSE IF Len(visited) < Len(vertices(g)) - 1
             THEN LET ignored == checkConnectivity(g, to, visited)
                  IN  IF ignored THEN CheckLoop(g, from, visited, i + 1)
                                 ELSE CheckLoop(g, from, visited, i + 1)
             ELSE TRUE

checkConnectivity(g, from, visited) == CheckLoop(g, from, visited, 1)

isStronglyConnected(g) ==
    \A v \in DOMAIN g : checkConnectivity(g, v, << >>)

-----------------------------------------------------------------------------
\* findShortestPaths

\* A double is kept as big * 8000000000000 + small, with small far below
\* 8000000000000: the two constants of the source are then exact.
Dbl(big, small) == [big |-> big, small |-> small]

\* The weight function the caller hands to findShortestPaths: an edge costs
\* nothing, 1, or 80000000000000; all are non-negative.
edgeWeightFunc(einfo) ==
    CASE einfo = "free" -> Dbl(0, 0)
      [] einfo = "toll" -> Dbl(0, 1)
      [] einfo = "far"  -> Dbl(10, 0)
\* shortestDist[...] = 80000000000000
InitialDist == Dbl(10, 0)
\* double minVal = 8000000000000
InitialMinVal == Dbl(1, 0)
DblLess(x, y) == x.big < y.big \/ (x.big = y.big /\ x.small < y.small)
DblPlus(x, y) == Dbl(x.big + y.big, x.small + y.small)

\* The loop of findMinimum; minVert is << >> while it is uninitialised.
RECURSIVE FindMinLoop(_, _, _, _, _)
FindMinLoop(vs, dist, i, minVal, minVert) ==
    IF i > Len(vs) THEN minVert
    ELSE IF DblLess(dist[vs[i]], minVal)
    THEN FindMinLoop(vs, dist, i + 1, dist[vs[i]], <<vs[i]>>)
    ELSE FindMinLoop(vs, dist, i + 1, minVal, minVert)

\* findMinimum(vertices, shortestDist): the set of values it may return.
\* When no vertex is nearer than the initial minVal, minVert is returned
\* uninitialised.
findMinimum(vs, dist) ==
    LET minVert == FindMinLoop(vs, dist, 1, InitialMinVal, << >>)
    IN  IF minVert = << >> THEN UninitInts ELSE {minVert[1]}

\* The loop that takes current out of unvisited (the first match, if any).
EraseFirst(s, x) ==
    IF x \in SeqRange(s)
    THEN EraseAt(s, CHOOSE i \in 1..Len(s) :
                        s[i] = x /\ \A k \in 1..(i - 1) : s[k] # x)
    ELSE s

\* The loop over the edges of current: [dist, path] after relaxing them.
RECURSIVE RelaxLoop(_, _, _, _, _)
RelaxLoop(es, i, current, dist, path) ==
    IF i > Len(es) THEN [dist |-> dist, path |-> path]
    ELSE LET to       == es[i].toVertex
             distance == DblPlus(dist[current], edgeWeightFunc(es[i].einfo))
         IN  IF DblLess(distance, dist[to])
             THEN RelaxLoop(es, i + 1, current,
                            MapPut(dist, to, distance), MapPut(path, to, current))
             ELSE RelaxLoop(es, i + 1, current, dist, path)

-----------------------------------------------------------------------------
\* The state machine

\* No call has been made, or the caller has dealt with the last one.
NoCall == [name |-> "none"]

NumEdges(g) == Len(edgesAll(g))

Init ==
    /\ info = << >>
    /\ op = NoCall
    /\ err = "none"
    /\ ret = "none"
    /\ crashed = FALSE
    /\ pc = "idle"
    /\ unvisited = << >>
    /\ shortestDist = << >>
    /\ shortestPath = << >>

\* The caller may make a call: no call is running or waiting to be looked at,
\* and the process is alive.
Callable == pc = "idle" /\ ~crashed /\ op = NoCall

NoLocals == UNCHANGED <<pc, unvisited, shortestDist, shortestPath>>

\* A mutator, called as `call`, ends with outcome o.
Finish(o, call) ==
    /\ info' = o.info
    /\ err' = o.err
    /\ crashed' = o.crashed
    /\ ret' = "none"
    /\ op' = call
    /\ NoLocals

addVertex ==
    /\ Callable
    /\ \E vertex \in Ids, vinfo \in VInfos :
          Finish(addVertexResult(info, vertex, vinfo),
                 [name |-> "addVertex", vertex |-> vertex, vinfo |-> vinfo])

addEdge ==
    /\ Callable
    /\ \E from \in Ids, to \in Ids, einfo \in EdgeInfos :
          LET o == addEdgeResult(info, from, to, einfo)
          IN  /\ o.err # "none" \/ NumEdges(info) < MaxEdges
              /\ Finish(o, [name |-> "addEdge", fromVertex |-> from,
                            toVertex |-> to, einfo |-> einfo])

removeVertex ==
    /\ Callable
    /\ \E vertex \in Ids :
          \E o \in removeVertexOutcomes(info, vertex) :
              Finish(o, [name |-> "removeVertex", vertex |-> vertex])

removeEdge ==
    /\ Callable
    /\ \E from \in Ids, to \in Ids :
          \E o \in removeEdgeOutcomes(info, from, to) :
              Finish(o, [name |-> "removeEdge", fromVertex |-> from, toVertex |-> to])

\* A const member function, called as `call`, throws e or returns r.
Query(call, e, r) ==
    /\ op' = call
    /\ err' = e
    /\ ret' = r
    /\ UNCHANGED <<info, crashed>>
    /\ NoLocals

edgeInfo ==
    /\ Callable
    /\ \E from \in Ids, to \in Ids :
          LET r == edgeInfoResult(info, from, to)
          IN  Query([name |-> "edgeInfo", fromVertex |-> from, toVertex |-> to],
                    r.err, r.ret)

edgeCount ==
    /\ Callable
    /\ \E total \in edgeCountResults(info) :
          Query([name |-> "edgeCount"], "none", total)

StronglyConnected ==
    /\ Callable
    /\ Query([name |-> "isStronglyConnected"], "none", isStronglyConnected(info))

\* findShortestPaths(startVertex, edgeWeightFunc), up to its while loop
ShortestPathsBegin ==
    /\ Callable
    /\ \E startVertex \in Ids :
          /\ op' = [name |-> "findShortestPaths", startVertex |-> startVertex]
          /\ unvisited' = vertices(info)
          /\ shortestDist' = MapPut([v \in DOMAIN info |-> InitialDist],
                                    startVertex, Dbl(0, 0))
          /\ shortestPath' = MapPut(<< >>, startVertex, startVertex)
    /\ pc' = "findShortestPaths"
    /\ err' = "none"
    /\ ret' = "none"
    /\ UNCHANGED <<info, crashed>>

Leave(e, r) ==
    /\ pc' = "idle"
    /\ err' = e
    /\ ret' = r
    /\ unvisited' = << >>
    /\ shortestDist' = << >>
    /\ shortestPath' = << >>
    /\ UNCHANGED <<info, op, crashed>>

\* One iteration of the while loop.  info.at(current) throws
\* std::out_of_range when current is no vertex.
ShortestPathsIterate ==
    /\ pc = "findShortestPaths"
    /\ unvisited # << >>
    /\ \E current \in findMinimum(unvisited, shortestDist) :
          IF current \notin DOMAIN info
          THEN Leave("out_of_range", "none")
          ELSE LET r == RelaxLoop(info[current].edges, 1, current,
                                  shortestDist, shortestPath)
               IN  /\ unvisited' = EraseFirst(unvisited, current)
                   /\ shortestDist' = r.dist
                   /\ shortestPath' = r.path
                   /\ UNCHANGED <<info, op, err, ret, crashed, pc>>

\* while(!unvisited.empty()) is left; return shortestPath
ShortestPathsReturn ==
    /\ pc = "findShortestPaths"
    /\ unvisited = << >>
    /\ Leave("none", shortestPath)

\* The caller has looked at what the last call returned or threw and goes on.
CallerResumes ==
    /\ pc = "idle"
    /\ ~crashed
    /\ op # NoCall
    /\ op' = NoCall
    /\ err' = "none"
    /\ ret' = "none"
    /\ UNCHANGED <<info, crashed>>
    /\ NoLocals

Next ==
    \/ addVertex
    \/ addEdge
    \/ removeVertex
    \/ removeEdge
    \/ edgeInfo
    \/ edgeCount
    \/ StronglyConnected
    \/ ShortestPathsBegin
    \/ ShortestPathsIterate
    \/ ShortestPathsReturn
    \/ CallerResumes

Spec == Init /\ [][Next]_vars

-----------------------------------------------------------------------------
\* What the properties are stated with

\* There is an edge from -> to in g.
HasEdge(g, from, to) ==
    /\ from \in DOMAIN g
    /\ \E i \in 1..Len(g[from].edges) : g[from].edges[i].toVertex = to

\* The weight of the edge from -> to (the first one, should there be two).
WeightOf(g, from, to) ==
    LET es == g[from].edges
        i  == CHOOSE j \in 1..Len(es) :
                  es[j].toVertex = to /\ \A k \in 1..(j - 1) : es[k].toVertex # to
    IN  edgeWeightFunc(es[i].einfo)

\* The vertices reachable from the vertices of S by directed paths.
RECURSIVE ReachFrom(_, _)
ReachFrom(g, S) ==
    LET T == S \cup {v \in DOMAIN g : \E u \in S : HasEdge(g, u, v)}
    IN  IF T = S THEN S ELSE ReachFrom(g, T)

EveryVertexReachesEvery(g) ==
    \A u \in DOMAIN g : ReachFrom(g, {u}) = DOMAIN g

\* WalkWeights(g, s, k)[v]: the weights of the walks of at most k edges from
\* s to v.
RECURSIVE WalkWeights(_, _, _)
WalkWeights(g, s, k) ==
    IF k = 0 THEN [v \in DOMAIN g |-> IF v = s THEN {Dbl(0, 0)} ELSE {}]
    ELSE LET W == WalkWeights(g, s, k - 1)
         IN  [v \in DOMAIN g |->
                W[v] \cup UNION {{DblPlus(d, WeightOf(g, u, v)) : d \in W[u]} :
                                    u \in {x \in DOMAIN g : HasEdge(g, x, v)}}]

SetMin(S) == CHOOSE x \in S : \A y \in S : ~DblLess(y, x)

\* The least weight of a directed path from s to v, v reachable from s.
MinPathWeight(g, s, v) == SetMin(WalkWeights(g, s, Cardinality(DOMAIN g))[v])

\* Following the predecessors of path from v back to start: {w} when that
\* leads to start along edges of g within fuel steps, w the weight of the
\* path walked; {} otherwise.
RECURSIVE PredecessorPath(_, _, _, _, _)
PredecessorPath(g, path, start, v, fuel) ==
    IF v = start THEN {Dbl(0, 0)}
    ELSE IF fuel = 0 \/ v \notin DOMAIN path THEN {}
    ELSE IF ~HasEdge(g, path[v], v) THEN {}
    ELSE {DblPlus(w, WeightOf(g, path[v], v)) :
             w \in PredecessorPath(g, path, start, path[v], fuel - 1)}

\* g without vertex v and without the edges to or from v.
WithoutVertex(g, v) ==
    [x \in DOMAIN g \ {v} |->
        [g[x] EXCEPT !.edges = SelectSeq(@, LAMBDA e : e.toVertex # v)]]

\* g without the edge from -> to.
WithoutEdge(g, from, to) ==
    [g EXCEPT ![from].edges = SelectSeq(@, LAMBDA e : e.toVertex # to)]

Mutators == {"addVertex", "addEdge", "removeVertex", "removeEdge"}
EdgeOps == {"addEdge", "removeEdge", "edgeInfo"}

\* The call c, made on graph g, breaks its precondition.
BreaksPrecondition(g, c) ==
    CASE c.name = "addVertex"    -> c.vertex \in DOMAIN g
      [] c.name = "addEdge"      -> \/ ~EndpointsPresent(g, c.fromVertex, c.toVertex)
                                    \/ HasEdge(g, c.fromVertex, c.toVertex)
      [] c.name = "removeVertex" -> c.vertex \notin DOMAIN g
      [] c.name = "removeEdge"   -> \/ ~EndpointsPresent(g, c.fromVertex, c.toVertex)
                                    \/ ~HasEdge(g, c.fromVertex, c.toVertex)
      [] c.name = "edgeInfo"     -> \/ ~EndpointsPresent(g, c.fromVertex, c.toVertex)
                                    \/ ~HasEdge(g, c.fromVertex, c.toVertex)
      [] OTHER                   -> FALSE

\* findShortestPaths(start, edgeWeightFunc), start a vertex of the graph, has
\* returned its map, ret.
ShortestPathsReturned ==
    /\ op.name = "findShortestPaths"
    /\ pc = "idle"
    /\ err = "none"
    /\ op.startVertex \in DOMAIN info

-----------------------------------------------------------------------------
\* Properties

\* C1: isStronglyConnected() returns true exactly when every vertex is
\* reachable from every other vertex by a directed path.
C1_StronglyConnectedIffAllReachable ==
    op.name = "isStronglyConnected" => ret = EveryVertexReachesEvery(info)

\* C2: the map findShortestPaths returns for a start vertex of the graph has a
\* key for every vertex; start maps to itself and every vertex that is not
\* reachable from start maps to itself.
C2_ResultHasEveryVertex ==
    ShortestPathsReturned =>
        /\ DOMAIN ret = DOMAIN info
        /\ ret[op.startVertex] = op.startVertex
        /\ \A v \in DOMAIN info \ ReachFrom(info, {op.startVertex}) : ret[v] = v

\* C3: in the map findShortestPaths returns, following the predecessors from
\* a vertex v reachable from start leads to start along edges of the graph,
\* and the weight of that path is the least weight of any path from start
\* to v.
C3_PredecessorsGiveShortestPaths ==
    ShortestPathsReturned =>
        \A v \in ReachFrom(info, {op.startVertex}) :
            PredecessorPath(info, ret, op.startVertex, v, Cardinality(DOMAIN info))
                = {MinPathWeight(info, op.startVertex, v)}

\* The graph holds no edge as heavy as the constants of findMinimum and
\* findShortestPaths.
NoFarEdge(g) ==
    \A v \in DOMAIN g : \A i \in 1..Len(g[v].edges) : g[v].edges[i].einfo # "far"

\* What does hold of the map returned: on a graph with light edges only it
\* gives shortest paths to the vertices reachable from start.
ShortestPathsOnLightGraphs ==
    (ShortestPathsReturned /\ NoFarEdge(info)) =>
        \A v \in ReachFrom(info, {op.startVertex}) :
            PredecessorPath(info, ret, op.startVertex, v, Cardinality(DOMAIN info))
                = {MinPathWeight(info, op.startVertex, v)}

\* C4: removeVertex(v) on a graph containing v leaves the graph without v and
\* without the edges to or from v, and with everything else as it was.
C4_RemoveVertexRemovesIncidentEdges ==
    [][(op = NoCall /\ op'.name = "removeVertex" /\ op'.vertex \in DOMAIN info) =>
          (~crashed' /\ info' = WithoutVertex(info, op'.vertex))]_vars

\* C5: while the program runs, every stored edge has a source and a
\* destination that are vertices of the graph, the source being the vertex
\* that owns the edge.
C5_EdgesReferencePresentVertices ==
    ~crashed =>
        \A v \in DOMAIN info :
            \A i \in 1..Len(info[v].edges) :
                /\ info[v].edges[i].fromVertex = v
                /\ info[v].edges[i].toVertex \in DOMAIN info

\* C5 witness: a removeVertex has gone through and edges are left in the graph.
C5_Witness ==
    /\ op.name = "removeVertex"
    /\ err = "none"
    /\ ~crashed
    /\ NumEdges(info) > 0

\* C6: a mutator called with its precondition broken throws, and a mutator
\* that throws leaves the vertices, the edges and the payloads as they were.
C6_FailedMutationChangesNothing ==
    [][(op = NoCall /\ op'.name \in Mutators) =>
          /\ BreaksPrecondition(info, op') => err' # "none"
          /\ err' # "none" => (info' = info /\ ~crashed')]_vars

\* C6 witness: an addEdge of an edge already present, with another EdgeInfo
\* than the one stored, has thrown.
C6_Witness ==
    /\ op.name = "addEdge"
    /\ err # "none"
    /\ HasEdge(info, op.fromVertex, op.toVertex)
    /\ info[op.fromVertex].edges[1].toVertex = op.toVertex
    /\ info[op.fromVertex].edges[1].einfo # op.einfo

\* C7: edgeCount() returns the number of edges of the graph, the sum of
\* edgeCount(v) over the vertices v.
C7_EdgeCountIsNumberOfEdges ==
    op.name = "edgeCount" =>
        /\ ret = Cardinality({e \in (DOMAIN info) \X (DOMAIN info) : HasEdge(info, e[1], e[2])})
        /\ ret = SumSeq([k \in 1..Len(vertices(info)) |->
                            edgeCountOf(info, vertices(info)[k])])

\* C8: removeEdge(from, to) on a graph holding that edge deletes exactly that
\* edge: the other edges, their payloads and the vertices stay.
C8_RemoveEdgeRemovesExactlyOne ==
    [][(op = NoCall /\ op'.name = "removeEdge"
            /\ EndpointsPresent(info, op'.fromVertex, op'.toVertex)
            /\ HasEdge(info, op'.fromVertex, op'.toVertex)) =>
          (~crashed' /\ info' = WithoutEdge(info, op'.fromVertex, op'.toVertex))]_vars

\* C9 as stated: the error of an edge operation tells a missing endpoint from
\* a missing (or duplicate) edge: on one graph, a call that fails for a missing
\* endpoint and a call that fails although both endpoints exist never throw
\* the same error.
C9_ErrorsTellCauseApart ==
    \A a \in Ids, b \in Ids, c \in Ids, d \in Ids :
        (~EndpointsPresent(info, a, b) /\ EndpointsPresent(info, c, d)) =>
            /\ HasEdge(info, c, d) =>
                  addEdgeResult(info, a, b, "free").err
                      # addEdgeResult(info, c, d, "free").err
            /\ ~HasEdge(info, c, d) =>
                  /\ \A o1 \in removeEdgeOutcomes(info, a, b) :
                         \A o2 \in removeEdgeOutcomes(info, c, d) : o1.err # o2.err
                  /\ edgeInfoResult(info, a, b).err # edgeInfoResult(info, c, d).err

\* C9 amended: addEdge, removeEdge and edgeInfo throw exactly when their
\* precondition is broken, and whatever the cause (an endpoint missing, the
\* edge missing, the edge already there) the exception's reason is the same,
\* "Invalid edge".
C9_EdgeOpsThrowInvalidEdge ==
    [][(op = NoCall /\ op'.name \in EdgeOps) =>
          /\ BreaksPrecondition(info, op') => err' = "Invalid edge"
          /\ ~BreaksPrecondition(info, op') => err' = "none"]_vars

\* C9 witness: a removeEdge between two vertices of the graph that have no
\* edge between them has thrown "Invalid edge".
C9_Witness ==
    /\ op.name = "removeEdge"
    /\ err = "Invalid edge"
    /\ EndpointsPresent(info, op.fromVertex, op.toVertex)
    /\ ~HasEdge(info, op.fromVertex, op.toVertex)

\* C10: findShortestPaths from a vertex of the graph comes to its return: each
\* iteration of the while loop takes one vertex out of unvisited and the loop
\* goes on until unvisited is empty.
C10_EachIterationShrinksUnvisited ==
    [][(pc = "findShortestPaths" /\ op.startVertex \in DOMAIN info
            /\ unvisited # << >>) =>
          /\ pc' = "findShortestPaths"
          /\ err' = "none"
          /\ Len(unvisited') = Len(unvisited) - 1]_vars

====
